---- MODULE Spec2Model ----
(***************************************************************************)
(* PageVault backend (src/server.js): an Express server that stores        *)
(* uploaded books as blobs in a GitHub repository and keeps their catalog  *)
(* in one JSON document, books.json, of the same repository.               *)
(*                                                                         *)
(* Text is modelled as a sequence of characters, each character a string.  *)
(* "e'" stands for the accented letter e-acute and "E'" for its capital.   *)
(***************************************************************************)
EXTENDS Integers, Sequences, FiniteSets, TLC

\* ------------------------------------------------------------------ bounds

\* Number of requests the server receives in one behaviour.
NumReq == 2

\* Length of the free part of the texts slugify is applied to.
MaxLen == 3

\* ------------------------------------------------------------- characters

UpperChars ==
  <<"A", "B", "C", "D", "E", "F", "G", "H", "I", "J", "K", "L", "M", "N", "O",
    "P", "Q", "R", "S", "T", "U", "V", "W", "X", "Y", "Z", "E'">>
LowerChars ==
  <<"a", "b", "c", "d", "e", "f", "g", "h", "i", "j", "k", "l", "m", "n", "o",
    "p", "q", "r", "s", "t", "u", "v", "w", "x", "y", "z", "e'">>

Digits == <<"0", "1", "2", "3", "4", "5", "6", "7", "8", "9">>

\* String.prototype.toLowerCase, one character at a time.
ToLowerChar(c) ==
  IF \E i \in 1..Len(UpperChars) : UpperChars[i] = c
  THEN LowerChars[CHOOSE i \in 1..Len(UpperChars) : UpperChars[i] = c]
  ELSE c

\* The six accent classes of slugify, restricted to the modelled alphabet:
\* [e-grave e-acute e-circumflex e-diaeresis] -> e.
Unaccent(c) == IF c = "e'" THEN "e" ELSE c

\* The class \s of a JavaScript regular expression (also what trim() strips).
IsSpace(c) == c \in {" ", "\t"}

\* The class [a-z0-9\s-]: what the strip step of slugify keeps.
IsSlugChar(c) ==
  \/ \E i \in 1..26 : LowerChars[i] = c
  \/ \E i \in 1..Len(Digits) : Digits[i] = c
  \/ IsSpace(c)
  \/ c = "-"

\* String.prototype.toLowerCase
ToLowerCase(s) == [i \in 1..Len(s) |-> ToLowerChar(s[i])]

\* The six .replace(/[...]/g, letter) calls that strip the accents.
UnaccentAll(s) == [i \in 1..Len(s) |-> Unaccent(s[i])]

\* String.prototype.trim: whitespace is removed at both ends, hyphens are not.
RECURSIVE TrimLeft(_)
TrimLeft(s) ==
  IF s # <<>> /\ IsSpace(Head(s)) THEN TrimLeft(Tail(s)) ELSE s

RECURSIVE TrimRight(_)
TrimRight(s) ==
  IF s # <<>> /\ IsSpace(s[Len(s)]) THEN TrimRight(SubSeq(s, 1, Len(s) - 1)) ELSE s

Trim(s) == TrimRight(TrimLeft(s))

\* .replace(/\s+/g, '-'): every maximal run of whitespace becomes one hyphen.
RECURSIVE SpacesToHyphen(_)
SpacesToHyphen(s) ==
  IF s = <<>> THEN <<>>
  ELSE IF IsSpace(Head(s))
       THEN <<"-">> \o SpacesToHyphen(TrimLeft(s))
       ELSE <<Head(s)>> \o SpacesToHyphen(Tail(s))

\* .replace(/-+/g, '-'): every maximal run of hyphens becomes one hyphen.
RECURSIVE CollapseHyphens(_)
CollapseHyphens(s) ==
  IF s = <<>> THEN <<>>
  ELSE IF Head(s) = "-" /\ Len(s) > 1 /\ s[2] = "-"
       THEN CollapseHyphens(Tail(s))
       ELSE <<Head(s)>> \o CollapseHyphens(Tail(s))

\* .slice(0, n)
Slice(s, n) == SubSeq(s, 1, IF Len(s) < n THEN Len(s) ELSE n)

\* The length slugify truncates to.
SlugMax == 60

\* slugify with its last two replacements in the other order.
slugifySwapped(str) ==
  LET lowered == ToLowerCase(str)
      plain   == UnaccentAll(lowered)
      kept    == SelectSeq(plain, IsSlugChar)
      trimmed == Trim(kept)
      single  == CollapseHyphens(trimmed)
      hyphens == SpacesToHyphen(single)
  IN  Slice(hyphens, SlugMax)

slugify(str) ==
  LET lowered == ToLowerCase(str)
      plain   == UnaccentAll(lowered)
      kept    == SelectSeq(plain, IsSlugChar)
      trimmed == Trim(kept)
      hyphens == SpacesToHyphen(trimmed)
      single  == CollapseHyphens(hyphens)
  IN  Slice(single, SlugMax)

\* --------------------------------------------------------------- the texts

Fiction    == <<"F", "i", "c", "t", "i", "o", "n">>
Science    == <<"S", "c", "i", "e", "n", "c", "e">>
Other      == <<"O", "t", "h", "e", "r">>
BooksDir   == <<"b", "o", "o", "k", "s", "/">>
PdfExt     == <<".", "p", "d", "f">>
EpubExt    == <<".", "e", "p", "u", "b">>

\* genreColors[genre] || '#4a4a4a' (three of the thirteen rows of the table).
GenreColor(genre) ==
  CASE genre = Fiction -> "#9c3d2e"
    [] genre = Science -> "#3a4a5a"
    [] genre = Other   -> "#4a4a4a"
    [] OTHER           -> "#4a4a4a"

\* ------------------------------------------------------------------ inputs

\* multer's fileSize limit and the sizes of the uploaded files, in MB.
FileSizeLimitMB == 50

\* req.file is undefined when the form carries no bookFile part.
NoFile == [present |-> FALSE, ext |-> <<>>, data |-> "none", mb |-> 0]

File(ext, data, mb) == [present |-> TRUE, ext |-> ext, data |-> data, mb |-> mb]

\* One well-formed upload; the other inputs differ from it in one field.
\* A text field that is absent from the form is the empty text: the handler
\* only tests it with "!".
BaseUpload ==
  [file   |-> File(<<".", "P", "D", "F">>, "d1", 1),
   title  |-> <<"A">>,
   author |-> <<"b">>,
   genre  |-> Fiction]

Files ==
  {NoFile,
   File(EpubExt, "d2", 1),
   File(<<".", "t", "x", "t">>, "d3", 1),
   File(PdfExt, "d4", FileSizeLimitMB + 1)}

\* Another book whose title and author give the path of BaseUpload.
SameSlugUpload ==
  [BaseUpload EXCEPT !.title = <<"a">>, !.file = File(PdfExt, "d5", 1)]

Titles  == {<<>>, <<" ">>}
Authors == {<<>>}
Genres  == {<<>>}

UploadInputs ==
  {BaseUpload, SameSlugUpload}
    \cup {[BaseUpload EXCEPT !.file = f]   : f \in Files}
    \cup {[BaseUpload EXCEPT !.title = t]  : t \in Titles}
    \cup {[BaseUpload EXCEPT !.author = a] : a \in Authors}
    \cup {[BaseUpload EXCEPT !.genre = g]  : g \in Genres}

\* The shared secret of the admin routes.
ADMIN_SECRET == "s3cret"

AuthHeaders == {"Bearer " \o ADMIN_SECRET, "bearer " \o ADMIN_SECRET, ADMIN_SECRET}

\* req.params.id as the client wrote it.
IdParams == {<<"1">>, <<"2">>, <<"x">>}

DeleteInputs == [auth : AuthHeaders, id : IdParams]

NoInput == [file |-> NoFile, title |-> <<>>, author |-> <<>>, genre |-> <<>>,
            auth |-> "", id |-> <<>>]

UploadInput(u) == [NoInput EXCEPT !.file = u.file, !.title = u.title,
                                  !.author = u.author, !.genre = u.genre]

DeleteInput(d) == [NoInput EXCEPT !.auth = d.auth, !.id = d.id]

\* --------------------------------------------------- the upload's derivations

\* The multer fileFilter: only .pdf and .epub are accepted.
fileFilter(file) == ToLowerCase(file.ext) \in {PdfExt, EpubExt}

\* path.extname(req.file.originalname).toLowerCase()
ExtOf(file) == ToLowerCase(file.ext)

FormatOf(ext) == IF ext = EpubExt THEN "EPUB" ELSE "PDF"

\* `books/${slugify(title)}-${slugify(author)}${ext}`
FilePath(title, author, ext) ==
  BooksDir \o slugify(title) \o <<"-">> \o slugify(author) \o ext

\* b.id || 0
IdOrZero(b) == IF b.id = 0 THEN 0 ELSE b.id

RECURSIVE MaxOf(_)
MaxOf(S) ==
  IF S = {} THEN 0
  ELSE LET x == CHOOSE y \in S : TRUE
           m == MaxOf(S \ {x})
       IN  IF x > m THEN x ELSE m

\* books.length > 0 ? Math.max(...books.map(b => b.id || 0)) + 1 : 1
NextIdSame(books) ==
  IF Len(books) > 0 THEN MaxOf({IdOrZero(books[i]) : i \in 1..Len(books)}) ELSE 1

NextId(books) ==
  IF Len(books) > 0 THEN MaxOf({IdOrZero(books[i]) : i \in 1..Len(books)}) + 1 ELSE 1

NoBook == [id |-> 0, title |-> <<>>, author |-> <<>>, genre |-> <<>>,
           format |-> "", file |-> <<>>, color |-> ""]

\* The record the upload handler appends (year, language, size, description
\* and uploadedAt are carried along unread and are left out).
NewBook(u, id, filePath) ==
  [id     |-> id,
   title  |-> Trim(u.title),
   author |-> Trim(u.author),
   genre  |-> Trim(u.genre),
   format |-> FormatOf(ExtOf(u.file)),
   file   |-> filePath,
   color  |-> GenreColor(u.genre)]

\* ------------------------------------------------- the upload's validation

\* !title, !author, !genre: a text is falsy when it is empty (or absent).
Falsy(text) == text = <<>>

\* What upload.single('bookFile') passes to the error middleware: the file
\* filter speaks when the part starts, the size limit while it is read.
MulterError(u) ==
  IF ~u.file.present THEN ""
  ELSE IF ~fileFilter(u.file) THEN "Only PDF and EPUB files are accepted."
  ELSE IF u.file.mb > FileSizeLimitMB THEN "File too large. Max 50 MB."
  ELSE ""

\* The handler's own checks, in their order.
HandlerErrorNoTitle(u) ==
  IF ~u.file.present THEN "No file uploaded."
  ELSE IF Falsy(u.author) THEN "Author is required."
  ELSE IF Falsy(u.genre) THEN "Genre is required."
  ELSE ""

HandlerError(u) ==
  IF ~u.file.present THEN "No file uploaded."
  ELSE IF Falsy(u.title) THEN "Title is required."
  ELSE IF Falsy(u.author) THEN "Author is required."
  ELSE IF Falsy(u.genre) THEN "Genre is required."
  ELSE ""

\* "" when the upload passes multer and the handler's checks.
UploadError(u) == IF MulterError(u) # "" THEN MulterError(u) ELSE HandlerError(u)

\* ------------------------------------------------------ the delete's lookups

\* What parseInt yields for a text that does not start with a digit.
NaN == -1

DigitValue(c) == (CHOOSE i \in 1..Len(Digits) : Digits[i] = c) - 1

IsDigit(c) == \E i \in 1..Len(Digits) : Digits[i] = c

RECURSIVE ParseDigits(_, _)
ParseDigits(s, acc) ==
  IF s = <<>> \/ ~IsDigit(Head(s)) THEN acc
  ELSE ParseDigits(Tail(s), 10 * acc + DigitValue(Head(s)))

\* parseInt(req.params.id): the leading digits, NaN when there are none.
ParseInt(s) == IF s = <<>> \/ ~IsDigit(Head(s)) THEN NaN ELSE ParseDigits(s, 0)

\* b.id === id (NaN equals nothing)
StrictEq(a, b) == a # NaN /\ b # NaN /\ a = b

\* books.findIndex(b => b.id === id), 1-based; 0 stands for -1.
FindIndexOrLast(books, id) ==
  IF \E i \in 1..Len(books) : StrictEq(books[i].id, id)
  THEN CHOOSE i \in 1..Len(books) : StrictEq(books[i].id, id)
  ELSE Len(books)

FindIndex(books, id) ==
  IF \E i \in 1..Len(books) : StrictEq(books[i].id, id)
  THEN CHOOSE i \in 1..Len(books) :
         /\ StrictEq(books[i].id, id)
         /\ \A j \in 1..(i - 1) : ~StrictEq(books[j].id, id)
  ELSE 0

\* books.splice(idx, 1): the list without its idx-th entry.
RemoveAtHead(books, idx) == Tail(books)

RemoveAt(books, idx) ==
  SubSeq(books, 1, idx - 1) \o SubSeq(books, idx + 1, Len(books))

\* req.headers.authorization !== `Bearer ${ADMIN_SECRET}`
AuthorizedAny(auth) == TRUE

Authorized(auth) == auth = "Bearer " \o ADMIN_SECRET

\* ------------------------------------------------------------------- state

VARIABLES
  catalog,    \* books.json in the repository: [sha, content]; sha = Null: no such file
  blobs,      \* the files under books/: path -> [sha, content]; sha = Null: no such file
  kind,       \* per request: "none", "list", "upload" or "delete"
  pc,         \* per request: the store call it is waiting for, "idle" or "done"
  inp,        \* per request: what the client sent
  loc,        \* per request: the handler's local variables
  calls,      \* per request: the store calls made so far, with their outcomes
  resp,       \* per request: the response sent
  slugIn,     \* the text slugify is applied to
  slugOnce,   \* slugify(slugIn)
  slugTwice,  \* slugify(slugify(slugIn))
  slugPc      \* "in", "once" or "twice"

vars == <<catalog, blobs, kind, pc, inp, loc, calls, resp,
          slugIn, slugOnce, slugTwice, slugPc>>

storeVars == <<catalog, blobs>>
slugVars  == <<slugIn, slugOnce, slugTwice, slugPc>>

Procs == 1..NumReq

\* getFileSHA and getBooksJson return null for a file that does not exist.
Null == 0

NoLoc == [ext |-> <<>>, filePath |-> <<>>, existingSHA |-> Null,
          books |-> <<>>, sha |-> Null, newBook |-> NoBook, removed |-> NoBook]

NoResp == [status |-> 0, success |-> FALSE, error |-> "", book |-> NoBook,
           n |-> 0, books |-> <<>>]

\* res.status(st).json({ success: false, error })
FailureStatusUnset(st, error) == [NoResp EXCEPT !.status = 200, !.error = error]

Failure(st, error) == [NoResp EXCEPT !.status = st, !.error = error]

\* One store call as the request saw it: the sha is the one presented (PUT) or
\* returned (GET).
Call(op, target, sha, status) ==
  [op |-> op, target |-> target, sha |-> sha, status |-> status]

\* ------------------------------------------- the store (GitHub Contents API)

\* GET <path>?ref=<branch>: 200 with content and sha, or 404.
GetStatus(obj) == IF obj.sha = Null THEN 404 ELSE 200

\* PUT <path> with body {message, content, branch, sha?}: a write that presents
\* a sha is accepted only if it is the file's current sha; a write that presents
\* none creates the file, or overwrites it blind.
PutAccepted(obj, sha) == sha = Null \/ sha = obj.sha

PutStatus(obj, sha) ==
  IF PutAccepted(obj, sha) THEN (IF obj.sha = Null THEN 201 ELSE 200) ELSE 409

\* The file after an accepted write: new content under a new sha.
Written(obj, content) == [sha |-> obj.sha + 1, content |-> content]

NoObject  == [sha |-> Null, content |-> "none"]
NoCatalog == [sha |-> Null, content |-> <<>>]

\* The store applied the write it answers with this status.
Applied(status) == status \in {200, 201}

\* res.ok
OkAlways(status) == TRUE

Ok(status) == status \in {200, 201}

\* What a store call can answer: the store's own answer, or a failure of the
\* host or the network.
Answers(status) == {status, 503}

\* The paths the accepted uploads write to.
BlobPaths ==
  {FilePath(u.title, u.author, ExtOf(u.file)) :
     u \in {v \in UploadInputs : UploadError(v) = ""}}

\* ----------------------------------------------------------- initial states

\* The path the upload handler derives for an upload.
PathOf(u) == FilePath(u.title, u.author, ExtOf(u.file))

Book1 == NewBook(BaseUpload, 1, PathOf(BaseUpload))

EpubUpload == [BaseUpload EXCEPT !.file = File(EpubExt, "d2", 1)]

Book2 == NewBook(EpubUpload, 2, PathOf(EpubUpload))

NoBlobs == [path \in BlobPaths |-> NoObject]

\* The repository as the server finds it: without a catalog, or with the
\* catalog and the blobs that earlier uploads of Book1 and Book2, and an
\* earlier delete of Book1, left.
InitialStores ==
  {[catalog |-> NoCatalog, blobs |-> NoBlobs],
   [catalog |-> [sha |-> 1, content |-> <<Book1>>],
    blobs   |-> [NoBlobs EXCEPT ![Book1.file] = [sha |-> 1, content |-> "d1"]]],
   [catalog |-> [sha |-> 2, content |-> <<Book1, Book2>>],
    blobs   |-> [NoBlobs EXCEPT ![Book1.file] = [sha |-> 1, content |-> "d1"],
                                ![Book2.file] = [sha |-> 1, content |-> "d2"]]],
   [catalog |-> [sha |-> 3, content |-> <<Book2>>],
    blobs   |-> [NoBlobs EXCEPT ![Book1.file] = [sha |-> 1, content |-> "d1"],
                                ![Book2.file] = [sha |-> 1, content |-> "d2"]]]}

Idle ==
  /\ kind  = [p \in Procs |-> "none"]
  /\ pc    = [p \in Procs |-> "idle"]
  /\ inp   = [p \in Procs |-> NoInput]
  /\ loc   = [p \in Procs |-> NoLoc]
  /\ calls = [p \in Procs |-> <<>>]
  /\ resp  = [p \in Procs |-> NoResp]

Init ==
  /\ \E s \in InitialStores : catalog = s.catalog /\ blobs = s.blobs
  /\ Idle
  /\ slugIn = <<>> /\ slugOnce = <<>> /\ slugTwice = <<>> /\ slugPc = "off"

\* ---------------------------------------------------------------- requests

\* Requests are taken in the order of their numbers.
CanReceive(p) == pc[p] = "idle" /\ (IF p = 1 THEN TRUE ELSE pc[p - 1] # "idle")

\* The request p ends with the response r.
Respond(p, r) ==
  /\ resp' = [resp EXCEPT ![p] = r]
  /\ pc'   = [pc EXCEPT ![p] = "done"]

Logged(p, c) == calls' = [calls EXCEPT ![p] = Append(@, c)]

\* ------------------------------------------------------------ GET /api/books

ReceiveList(p) ==
  /\ CanReceive(p)
  /\ kind' = [kind EXCEPT ![p] = "list"]
  /\ pc'   = [pc EXCEPT ![p] = "getCat"]
  /\ UNCHANGED <<storeVars, inp, loc, calls, resp, slugVars>>

\* res.status === 404 in getFileSHA and getBooksJson
IsNotFoundNever(status) == FALSE

IsNotFound(status) == status = 404

\* getBooksJson: what it returns for an answer of the store that is no failure.
FetchedBooks(status, obj) ==
  IF IsNotFound(status) THEN [books |-> <<>>, sha |-> Null]
  ELSE [books |-> obj.content, sha |-> obj.sha]

\* getBooksJson throws for an answer that is neither 404 nor ok.
FetchFails(status) == ~IsNotFound(status) /\ ~Ok(status)

ListGetCat(p) ==
  /\ kind[p] = "list" /\ pc[p] = "getCat"
  /\ \E st \in Answers(GetStatus(catalog)) :
       /\ Logged(p, Call("GET", "catalog", IF Ok(st) THEN catalog.sha ELSE Null, st))
       /\ IF FetchFails(st)
          THEN Respond(p, Failure(500, "Failed to fetch books catalog."))
          ELSE LET got == FetchedBooks(st, catalog)
               IN  Respond(p, [NoResp EXCEPT !.status = 200, !.success = TRUE,
                                             !.n = Len(got.books), !.books = got.books])
  /\ UNCHANGED <<storeVars, kind, inp, loc, slugVars>>

\* ---------------------------------------------------------- POST /api/upload

\* `GitHub commit failed (${res.status}): ...`, `GitHub SHA error: ${res.status} ...`
\* and `Failed to fetch books.json: ${res.status}`
CommitError(st) ==
  IF st = 409 THEN "GitHub commit failed (409)" ELSE "GitHub commit failed (503)"

ShaError(st) == "GitHub SHA error: 503"

FetchError(st) == "Failed to fetch books.json: 503"

\* The sha a write presents: { ...(sha ? { sha } : {}) }
PresentedNone(sha) == Null

Presented(sha) == sha

ReceiveUpload(p) ==
  /\ CanReceive(p)
  /\ \E u \in UploadInputs :
       /\ kind' = [kind EXCEPT ![p] = "upload"]
       /\ inp'  = [inp EXCEPT ![p] = UploadInput(u)]
       /\ IF UploadError(u) # ""
          THEN /\ Respond(p, Failure(400, UploadError(u)))
               /\ UNCHANGED loc
          ELSE /\ pc'  = [pc EXCEPT ![p] = "getBlob"]
               /\ loc' = [loc EXCEPT ![p].ext = ExtOf(u.file),
                                     ![p].filePath = FilePath(u.title, u.author, ExtOf(u.file))]
               /\ UNCHANGED resp
  /\ UNCHANGED <<storeVars, calls, slugVars>>

\* getFileSHA(filePath) answers; the handler then sends the blob.
UploadGetSHA(p) ==
  /\ kind[p] = "upload" /\ pc[p] = "getBlob"
  /\ LET obj == blobs[loc[p].filePath] IN
     \E st \in Answers(GetStatus(obj)) :
       /\ Logged(p, Call("GET", "blob", IF Ok(st) THEN obj.sha ELSE Null, st))
       /\ IF ~IsNotFound(st) /\ ~Ok(st)
          THEN /\ Respond(p, Failure(500, ShaError(st)))
               /\ UNCHANGED loc
          ELSE /\ loc' = [loc EXCEPT ![p].existingSHA =
                                       IF IsNotFound(st) THEN Null ELSE obj.sha]
               /\ pc'  = [pc EXCEPT ![p] = "putBlob"]
               /\ UNCHANGED resp
  /\ UNCHANGED <<storeVars, kind, inp, slugVars>>

\* commitFileToGitHub(filePath, buffer, message, existingSHA) answers; the
\* handler then asks for the catalog.
UploadPutBlob(p) ==
  /\ kind[p] = "upload" /\ pc[p] = "putBlob"
  /\ LET path == loc[p].filePath
         sha  == Presented(loc[p].existingSHA)
     IN
     \E st \in Answers(PutStatus(blobs[path], sha)) :
       /\ Logged(p, Call("PUT", "blob", sha, st))
       /\ blobs' = IF Applied(st)
                   THEN [blobs EXCEPT ![path] = Written(@, inp[p].file.data)]
                   ELSE blobs
       /\ IF Ok(st)
          THEN /\ pc' = [pc EXCEPT ![p] = "getCat"]
               /\ UNCHANGED resp
          ELSE Respond(p, Failure(500, CommitError(st)))
  /\ UNCHANGED <<catalog, kind, inp, loc, slugVars>>

\* getBooksJson() answers; the handler allocates the id, builds the record,
\* appends it and sends the catalog.
UploadGetCat(p) ==
  /\ kind[p] = "upload" /\ pc[p] = "getCat"
  /\ \E st \in Answers(GetStatus(catalog)) :
       /\ Logged(p, Call("GET", "catalog", IF Ok(st) THEN catalog.sha ELSE Null, st))
       /\ IF FetchFails(st)
          THEN /\ Respond(p, Failure(500, FetchError(st)))
               /\ UNCHANGED loc
          ELSE LET got     == FetchedBooks(st, catalog)
                   newBook == NewBook(inp[p], NextId(got.books), loc[p].filePath)
               IN  /\ loc' = [loc EXCEPT ![p].books = Append(got.books, newBook),
                                         ![p].sha = got.sha,
                                         ![p].newBook = newBook]
                   /\ pc'  = [pc EXCEPT ![p] = "putCat"]
                   /\ UNCHANGED resp
  /\ UNCHANGED <<storeVars, kind, inp, slugVars>>

\* saveBooksJson(books, booksSHA) answers; the handler responds.
UploadPutCat(p) ==
  /\ kind[p] = "upload" /\ pc[p] = "putCat"
  /\ LET sha == Presented(loc[p].sha) IN
     \E st \in Answers(PutStatus(catalog, sha)) :
       /\ Logged(p, Call("PUT", "catalog", sha, st))
       /\ catalog' = IF Applied(st) THEN Written(catalog, loc[p].books) ELSE catalog
       /\ IF Ok(st)
          THEN Respond(p, [NoResp EXCEPT !.status = 200, !.success = TRUE,
                                         !.book = loc[p].newBook,
                                         !.n = Len(loc[p].books)])
          ELSE Respond(p, Failure(500, CommitError(st)))
  /\ UNCHANGED <<blobs, kind, inp, loc, slugVars>>

\* ----------------------------------------------------- DELETE /api/books/:id

ReceiveDelete(p) ==
  /\ CanReceive(p)
  /\ \E d \in DeleteInputs :
       /\ kind' = [kind EXCEPT ![p] = "delete"]
       /\ inp'  = [inp EXCEPT ![p] = DeleteInput(d)]
       /\ IF ~Authorized(d.auth)
          THEN Respond(p, Failure(401, "Unauthorized."))
          ELSE /\ pc' = [pc EXCEPT ![p] = "getCat"]
               /\ UNCHANGED resp
  /\ UNCHANGED <<storeVars, loc, calls, slugVars>>

\* getBooksJson() answers; the handler looks the id up, removes the entry and
\* sends the catalog.
DeleteGetCat(p) ==
  /\ kind[p] = "delete" /\ pc[p] = "getCat"
  /\ \E st \in Answers(GetStatus(catalog)) :
       /\ Logged(p, Call("GET", "catalog", IF Ok(st) THEN catalog.sha ELSE Null, st))
       /\ IF FetchFails(st)
          THEN /\ Respond(p, Failure(500, FetchError(st)))
               /\ UNCHANGED loc
          ELSE LET got == FetchedBooks(st, catalog)
                   idx == FindIndex(got.books, ParseInt(inp[p].id))
               IN  IF idx = 0
                   THEN /\ Respond(p, Failure(404, "Book not found."))
                        /\ UNCHANGED loc
                   ELSE /\ loc' = [loc EXCEPT ![p].books = RemoveAt(got.books, idx),
                                              ![p].sha = got.sha,
                                              ![p].removed = got.books[idx]]
                        /\ pc'  = [pc EXCEPT ![p] = "putCat"]
                        /\ UNCHANGED resp
  /\ UNCHANGED <<storeVars, kind, inp, slugVars>>

\* saveBooksJson(books, sha) answers; the handler responds.
DeletePutCat(p) ==
  /\ kind[p] = "delete" /\ pc[p] = "putCat"
  /\ LET sha == Presented(loc[p].sha) IN
     \E st \in Answers(PutStatus(catalog, sha)) :
       /\ Logged(p, Call("PUT", "catalog", sha, st))
       /\ catalog' = IF Applied(st) THEN Written(catalog, loc[p].books) ELSE catalog
       /\ IF Ok(st)
          THEN Respond(p, [NoResp EXCEPT !.status = 200, !.success = TRUE,
                                         !.book = loc[p].removed])
          ELSE Respond(p, Failure(500, CommitError(st)))
  /\ UNCHANGED <<blobs, kind, inp, loc, slugVars>>

\* ------------------------------------------------------------ the server

Next ==
  \E p \in Procs :
    \/ ReceiveList(p)
    \/ ListGetCat(p)
    \/ ReceiveUpload(p)
    \/ UploadGetSHA(p)
    \/ UploadPutBlob(p)
    \/ UploadGetCat(p)
    \/ UploadPutCat(p)
    \/ ReceiveDelete(p)
    \/ DeleteGetCat(p)
    \/ DeletePutCat(p)

Spec == Init /\ [][Next]_vars

\* The store's answer to a call of request p arrives and the handler runs on.
Answered(p) ==
  \/ ListGetCat(p)
  \/ UploadGetSHA(p)
  \/ UploadPutBlob(p)
  \/ UploadGetCat(p)
  \/ UploadPutCat(p)
  \/ DeleteGetCat(p)
  \/ DeletePutCat(p)

\* Every store call returns, with a result or with a failure, and the event
\* loop then runs the handler that awaits it.
FairSpec == Spec /\ \A p \in Procs : WF_vars(Answered(p))

\* ------------------------------------------------------ slugify on its own

SlugAlphabet == {"A", "a", "E'", "1", " ", "\t", "-", "!"}

RECURSIVE Texts(_)
Texts(n) ==
  IF n = 0 THEN {<<>>}
  ELSE LET shorter == Texts(n - 1)
       IN  shorter \cup {Append(t, c) : t \in shorter, c \in SlugAlphabet}

\* A run of letters that brings the free part up to the truncation point.
Padding == [i \in 1..(SlugMax - 2) |-> "a"]

SlugInputs == Texts(MaxLen) \cup {Padding \o t : t \in Texts(MaxLen)}

SlugInit ==
  /\ catalog = NoCatalog /\ blobs = NoBlobs
  /\ Idle
  /\ slugIn \in SlugInputs
  /\ slugOnce = <<>> /\ slugTwice = <<>> /\ slugPc = "in"

SlugApply ==
  /\ slugPc = "in"
  /\ slugOnce' = slugify(slugIn)
  /\ slugPc' = "once"
  /\ UNCHANGED <<storeVars, kind, pc, inp, loc, calls, resp, slugIn, slugTwice>>

SlugApplyAgain ==
  /\ slugPc = "once"
  /\ slugTwice' = slugify(slugOnce)
  /\ slugPc' = "twice"
  /\ UNCHANGED <<storeVars, kind, pc, inp, loc, calls, resp, slugIn, slugOnce>>

SlugNext == SlugApply \/ SlugApplyAgain

SlugSpec == SlugInit /\ [][SlugNext]_vars

\* ------------------------------------------------------- reading the history

\* The calls of request p to the catalog: its fetch and its write.
CatCalls(p, op) ==
  {i \in 1..Len(calls[p]) : calls[p][i].target = "catalog" /\ calls[p][i].op = op}

HasCatGet(p) == CatCalls(p, "GET") # {}
HasCatPut(p) == CatCalls(p, "PUT") # {}

CatGet(p) == calls[p][CHOOSE i \in CatCalls(p, "GET") : TRUE]
CatPut(p) == calls[p][CHOOSE i \in CatCalls(p, "PUT") : TRUE]

\* Request p wrote the catalog and the store accepted the write.
WonCatalog(p) == HasCatPut(p) /\ Ok(CatPut(p).status)

\* p and q are two requests that fetched the catalog at the same revision and
\* both sent their write.
Raced(p, q) ==
  /\ p # q
  /\ HasCatPut(p) /\ HasCatPut(q)
  /\ loc[p].sha # Null /\ loc[p].sha = loc[q].sha

\* ------------------------------------------------------------------ claims

\* C1: of two catalog-mutating requests that fetched the catalog at the same
\* revision and both wrote it back, at most one write is accepted; once one is
\* accepted the other request ends with the 500 response that carries the
\* store's rejection (409 Conflict, or a failure of the store), both are
\* rejected with a Conflict only if a third writer won, and the catalog at the
\* winner's new revision holds exactly the list the winner sent.
C1_OneWinner ==
  \A p \in Procs : \A q \in Procs :
    Raced(p, q) =>
      /\ ~(WonCatalog(p) /\ WonCatalog(q))
      /\ WonCatalog(p) =>
           /\ CatPut(q).status \in {409, 503}
           /\ resp[q] = Failure(500, CommitError(CatPut(q).status))
           /\ catalog.sha = loc[p].sha + 1 => catalog.content = loc[p].books
      /\ (CatPut(p).status = 409 /\ CatPut(q).status = 409) =>
           \E z \in Procs \ {p, q} : WonCatalog(z)

C1_Witness ==
  \E p \in Procs : \E q \in Procs :
    /\ Raced(p, q)
    /\ WonCatalog(p)
    /\ CatPut(q).status = 409
    /\ kind[p] = "upload" /\ kind[q] = "delete"
    /\ pc[q] = "done"

\* An upload that validation has to reject: no file, a required text absent or
\* empty, or a file that is neither .pdf nor .epub.
InvalidUpload(u) ==
  \/ ~u.file.present
  \/ u.title = <<>> \/ u.author = <<>> \/ u.genre = <<>>
  \/ ToLowerCase(u.file.ext) \notin {PdfExt, EpubExt}

\* C2: an upload that fails validation is answered 400 in the step that
\* receives it, with no store call made then or later, and with the catalog and
\* the blobs as they were.
C2_RejectedUploadCallsNothing ==
  [][\A p \in Procs :
       /\ (kind[p] = "none" /\ kind'[p] = "upload" /\ InvalidUpload(inp'[p])) =>
            /\ pc'[p] = "done"
            /\ resp'[p].status = 400 /\ ~resp'[p].success /\ resp'[p].error # ""
            /\ calls'[p] = <<>>
            /\ catalog' = catalog /\ blobs' = blobs
       /\ (kind[p] = "upload" /\ InvalidUpload(inp[p])) =>
            /\ calls'[p] = <<>>
            /\ resp'[p] = resp[p]
    ]_vars

C2_Witness ==
  \E p \in Procs : \E q \in Procs :
    /\ kind[p] = "upload" /\ inp[p].file.present /\ inp[p].title = <<>>
    /\ resp[p].status = 400
    /\ kind[q] = "upload" /\ ~inp[q].file.present
    /\ resp[q].status = 400

\* The ids of the books of a list.
IdsOf(books) == {books[i].id : i \in 1..Len(books)}

\* C3: a delete whose credential is not exactly "Bearer <secret>" is answered
\* 401 in the step that receives it, whether or not the id is in the catalog,
\* with no store call made then or later and the catalog as it was.
C3_BadCredentialUnauthorized ==
  [][\A p \in Procs :
       /\ (kind[p] = "none" /\ kind'[p] = "delete"
             /\ inp'[p].auth # "Bearer " \o ADMIN_SECRET) =>
            /\ pc'[p] = "done"
            /\ resp'[p] = Failure(401, "Unauthorized.")
            /\ calls'[p] = <<>>
            /\ catalog' = catalog /\ blobs' = blobs
       /\ (kind[p] = "delete" /\ inp[p].auth # "Bearer " \o ADMIN_SECRET) =>
            /\ calls'[p] = <<>>
            /\ resp'[p] = resp[p]
    ]_vars

C3_Witness ==
  \E p \in Procs : \E q \in Procs :
    /\ kind[p] = "delete" /\ resp[p].status = 401
    /\ ParseInt(inp[p].id) \in IdsOf(catalog.content)
    /\ kind[q] = "delete" /\ resp[q].status = 401
    /\ ParseInt(inp[q].id) \notin IdsOf(catalog.content)

\* The step in which the store answers the catalog fetch of request p, a
\* delete with the right credential, and the answer is no failure.
DeleteFetched(p) ==
  /\ kind[p] = "delete" /\ pc[p] = "getCat" /\ pc'[p] # "getCat"
  /\ calls'[p][Len(calls'[p])].status \in {200, 404}

\* C4: a delete with the right credential whose id is the id of no entry of
\* the catalog it fetched is answered 404, sends no catalog write, and leaves
\* the catalog, content and revision, as it was.
C4_UnknownIdNotFound ==
  [][\A p \in Procs :
       (DeleteFetched(p) /\ ParseInt(inp[p].id) \notin IdsOf(catalog.content)) =>
         /\ pc'[p] = "done"
         /\ resp'[p] = Failure(404, "Book not found.")
         /\ \A i \in 1..Len(calls'[p]) : calls'[p][i].op # "PUT"
         /\ catalog' = catalog
    ]_vars

C4_Witness ==
  \E p \in Procs :
    /\ kind[p] = "delete" /\ inp[p].auth = "Bearer " \o ADMIN_SECRET
    /\ resp[p].status = 404
    /\ HasCatGet(p) /\ CatGet(p).status = 200
    /\ catalog.content # <<>>

\* C5: the ids of the stored catalog are positive and pairwise different.
C5_IdsPositiveUnique ==
  LET books == catalog.content IN
  /\ \A i \in 1..Len(books) : books[i].id \in Nat /\ books[i].id >= 1
  /\ \A i \in 1..Len(books) : \A j \in 1..Len(books) :
       books[i].id = books[j].id => i = j

C5_Witness ==
  /\ Len(catalog.content) >= 2
  /\ \E p \in Procs : kind[p] = "upload" /\ WonCatalog(p)
  /\ \E q \in Procs : kind[q] = "delete" /\ HasCatPut(q) /\ ~WonCatalog(q)

\* An upload that has fetched the catalog and built its record: the list it
\* fetched is the list it is about to send without the record it appended.
Allocated(p) == kind[p] = "upload" /\ loc[p].newBook # NoBook

FetchedBy(p) == SubSeq(loc[p].books, 1, Len(loc[p].books) - 1)

\* C6: the id an upload allocates is 1 when the catalog it fetched is empty or
\* absent; otherwise it is one more than an id of the fetched catalog and
\* greater than every id of it.
C6_NextIdIsMaxPlusOne ==
  \A p \in Procs :
    Allocated(p) =>
      LET id  == loc[p].newBook.id
          ids == IdsOf(FetchedBy(p))
      IN  /\ loc[p].books[Len(loc[p].books)] = loc[p].newBook
          /\ loc[p].sha = Null => ids = {}
          /\ ids = {} => id = 1
          /\ ids # {} => (id - 1 \in ids /\ \A x \in ids : x < id)

C6_Witness ==
  \E p \in Procs : \E q \in Procs :
    /\ Allocated(p) /\ FetchedBy(p) = <<>> /\ loc[p].newBook.id = 1
    /\ Allocated(q) /\ Len(FetchedBy(q)) = 1 /\ loc[q].newBook.id = 2
    /\ WonCatalog(p) /\ WonCatalog(q)

\* C7: every catalog write presents the sha its own request's catalog fetch
\* returned, presents none only when that fetch answered 404, and no write
\* that presents none replaces a catalog document that exists (the store
\* answers such a write 200, and 201 when it created the document).
C7_NoUnconditionedOverwrite ==
  \A p \in Procs :
    HasCatPut(p) =>
      /\ HasCatGet(p)
      /\ CatPut(p).sha = CatGet(p).sha
      /\ CatPut(p).sha = Null => CatGet(p).status = 404
      /\ ~(CatPut(p).sha = Null /\ CatPut(p).status = 200)

\* The part of C7 that is about the request alone: the sha presented is the
\* sha fetched, and none is presented only after a 404.
C7_PresentsFetchedSha ==
  \A p \in Procs :
    HasCatPut(p) =>
      /\ HasCatGet(p)
      /\ CatPut(p).sha = CatGet(p).sha
      /\ CatPut(p).sha = Null => CatGet(p).status = 404

\* C8: every book of the stored catalog has a non-empty title, author and
\* genre.
C8_RequiredFieldsNonEmpty ==
  \A i \in 1..Len(catalog.content) :
    /\ catalog.content[i].title # <<>>
    /\ catalog.content[i].author # <<>>
    /\ catalog.content[i].genre # <<>>

\* The step that ends request p, whose catalog fetch the store answered 404.
EndsAfter404(p) ==
  /\ pc[p] # "done" /\ pc'[p] = "done"
  /\ \E i \in 1..Len(calls'[p]) :
       /\ calls'[p][i].op = "GET" /\ calls'[p][i].target = "catalog"
       /\ calls'[p][i].status = 404

\* C9: a catalog fetch answered 404 is an empty catalog and no error: the list
\* request answers success with count 0, the delete answers 404, and the
\* upload whose write the store accepts leaves a catalog of exactly its one
\* book, with id 1.
C9_AbsentCatalogIsEmpty ==
  [][\A p \in Procs :
       EndsAfter404(p) =>
         /\ kind[p] = "list" =>
              resp'[p] = [NoResp EXCEPT !.status = 200, !.success = TRUE]
         /\ kind[p] = "delete" => resp'[p] = Failure(404, "Book not found.")
         /\ kind[p] = "upload" =>
              /\ loc[p].sha = Null
              /\ calls'[p][Len(calls'[p])].op = "PUT"
              /\ Ok(calls'[p][Len(calls'[p])].status) =>
                   /\ resp'[p].success /\ resp'[p].status = 200
                   /\ resp'[p].book.id = 1 /\ resp'[p].n = 1
                   /\ catalog'.content = <<resp'[p].book>>
                   /\ catalog'.sha # Null
    ]_vars

C9_Witness ==
  \E p \in Procs : \E q \in Procs :
    /\ kind[p] = "upload" /\ HasCatGet(p) /\ CatGet(p).status = 404
    /\ resp[p].success
    /\ kind[q] \in {"list", "delete"} /\ HasCatGet(q) /\ CatGet(q).status = 404
    /\ pc[q] = "done"

\* C10: slugify(slugify(s)) = slugify(s).
C10_SlugifyIdempotent == slugPc = "twice" => slugTwice = slugOnce

C10_Witness ==
  /\ slugPc = "twice"
  /\ Len(slugIn) > SlugMax
  /\ Len(slugOnce) = SlugMax
  /\ slugOnce[SlugMax] = "-"

\* A store call of request p that the store answered with a failure.
FailedCalls(p) == {i \in 1..Len(calls[p]) : calls[p][i].status \in {409, 503}}

CallOrder(p) == [i \in 1..Len(calls[p]) |-> <<calls[p][i].op, calls[p][i].target>>]

UploadOrder ==
  << <<"GET", "blob">>, <<"PUT", "blob">>, <<"GET", "catalog">>, <<"PUT", "catalog">> >>

\* C12: the store calls of an upload are a prefix of: fetch blob sha, write
\* blob, fetch catalog, write catalog; a call to the catalog is made only
\* after the blob fetch answered 200 or 404 and the blob write was accepted.
C12_UploadCallOrder ==
  \A p \in Procs :
    kind[p] = "upload" =>
      /\ Len(calls[p]) <= Len(UploadOrder)
      /\ CallOrder(p) = SubSeq(UploadOrder, 1, Len(calls[p]))
      /\ Len(calls[p]) >= 3 =>
           /\ calls[p][1].status \in {200, 404}
           /\ calls[p][2].status \in {200, 201}
           /\ blobs[loc[p].filePath].sha # Null
      /\ (Len(calls[p]) >= 1 /\ calls[p][1].status \notin {200, 404}) =>
           Len(calls[p]) = 1 /\ pc[p] = "done"
      /\ (Len(calls[p]) >= 2 /\ calls[p][2].status \notin {200, 201}) =>
           Len(calls[p]) = 2 /\ pc[p] = "done"

C12_Witness ==
  \E p \in Procs : \E q \in Procs :
    /\ kind[p] = "upload" /\ Len(calls[p]) = 4
    /\ kind[q] = "upload" /\ Len(calls[q]) = 2 /\ calls[q][2].status = 409
    /\ pc[q] = "done"

\* This step appends one call of request p: op on target, answered by one of
\* the statuses.
StepCalls(p, op, target, statuses) ==
  /\ Len(calls'[p]) = Len(calls[p]) + 1
  /\ calls'[p][Len(calls'[p])].op = op
  /\ calls'[p][Len(calls'[p])].target = target
  /\ calls'[p][Len(calls'[p])].status \in statuses

\* C13: an upload or delete fetches the catalog at most once and writes it at
\* most once; a request whose catalog write was answered 409 Conflict has
\* ended with the 500 response carrying that rejection and makes no further
\* call, some other request's write was accepted, and the step in which the
\* write is rejected leaves the stored catalog as it was.
C13_ConflictNotRetried ==
  /\ [](\A p \in Procs :
          /\ Cardinality(CatCalls(p, "GET")) <= 1
          /\ Cardinality(CatCalls(p, "PUT")) <= 1
          /\ (HasCatPut(p) /\ CatPut(p).status = 409) =>
               /\ pc[p] = "done"
               /\ resp[p] = Failure(500, CommitError(409))
               /\ calls[p][Len(calls[p])] = CatPut(p)
               /\ \E q \in Procs \ {p} : WonCatalog(q))
  /\ [][\A p \in Procs :
          /\ StepCalls(p, "PUT", "catalog", {409}) =>
               /\ catalog' = catalog
               /\ catalog.sha # CatPut(p)'.sha
          /\ pc[p] = "done" => calls'[p] = calls[p]]_vars

C13_Witness ==
  \E p \in Procs : \E q \in Procs :
    /\ kind[p] = "upload" /\ HasCatPut(p) /\ CatPut(p).status = 409
    /\ pc[p] = "done"
    /\ kind[q] = "delete" /\ WonCatalog(q)
    /\ catalog.content = loc[q].books
    /\ \A i \in 1..Len(catalog.content) : catalog.content[i] # loc[p].newBook

\* This step appends a call of the upload p to the catalog that the store
\* answers with a failure.
CatalogStepFails(p) ==
  /\ kind[p] = "upload"
  /\ \/ StepCalls(p, "GET", "catalog", {409, 503})
     \/ StepCalls(p, "PUT", "catalog", {409, 503})

\* An upload whose blob write was accepted and whose catalog fetch or catalog
\* write failed ends with a 500 failure response, the failed call is its last
\* call (no delete or rewrite of the blob follows), the blob is at its path,
\* the failing step changes neither the catalog nor any blob, and no step
\* ever removes a blob.
C14_FailedUploadKeepsBlob ==
  /\ [](\A p \in Procs :
          (kind[p] = "upload" /\ FailedCalls(p) \cap {3, 4} # {}) =>
            /\ calls[p][2].status \in {200, 201}
            /\ pc[p] = "done"
            /\ resp[p].status = 500 /\ ~resp[p].success
            /\ FailedCalls(p) = {Len(calls[p])}
            /\ blobs[loc[p].filePath].sha # Null)
  /\ [][/\ \A p \in Procs :
             CatalogStepFails(p) => catalog' = catalog /\ blobs' = blobs
        /\ \A path \in BlobPaths :
             blobs[path].sha # Null => blobs'[path].sha # Null]_vars

\* C14: an upload whose blob write was accepted and whose catalog fetch or
\* catalog write failed ends with a failure response, leaves the blob at its
\* path and the catalog unchanged, makes no compensating call, and its blob is
\* an orphan: when the request fails no Book of the catalog carries the blob's
\* path, so the blob is not visible through GET /api/books.
C14_OrphanBlob ==
  /\ C14_FailedUploadKeepsBlob
  /\ [][\A p \in Procs :
          CatalogStepFails(p) =>
            \A i \in 1..Len(catalog'.content) :
              catalog'.content[i].file # loc[p].filePath]_vars

\* C15: when the catalog write of a delete is accepted, the request was
\* authorized, the catalog is still at the revision the delete fetched, and
\* the new catalog is the old one without the first entry that has the id of
\* the request, every other entry in its place and order; the response is a
\* success that carries the removed Book.
C15_DeleteRemovesFirstMatch ==
  [][\A p \in Procs :
       (kind[p] = "delete" /\ StepCalls(p, "PUT", "catalog", {200, 201})) =>
         /\ Authorized(inp[p].auth)
         /\ catalog.sha = CatGet(p).sha
         /\ catalog'.sha # catalog.sha
         /\ \E k \in 1..Len(catalog.content) :
              /\ catalog.content[k].id = ParseInt(inp[p].id)
              /\ \A j \in 1..(k - 1) : catalog.content[j].id # ParseInt(inp[p].id)
              /\ Len(catalog'.content) = Len(catalog.content) - 1
              /\ \A j \in 1..(k - 1) : catalog'.content[j] = catalog.content[j]
              /\ \A j \in k..Len(catalog'.content) :
                   catalog'.content[j] = catalog.content[j + 1]
              /\ resp'[p].status = 200 /\ resp'[p].success
              /\ resp'[p].book = catalog.content[k]]_vars

C15_Witness ==
  \E p \in Procs :
    /\ kind[p] = "delete" /\ WonCatalog(p)
    /\ CatGet(p).sha = 2
    /\ resp[p].success /\ resp[p].book = Book1
    /\ catalog.content = <<Book2>>

\* The delete q was accepted and p is the next successful upload: p fetched
\* the catalog at the revision q's write produced, and p's write was accepted.
NextUploadAfter(q, p) ==
  /\ kind[q] = "delete" /\ WonCatalog(q)
  /\ kind[p] = "upload" /\ WonCatalog(p)
  /\ CatGet(p).sha = CatPut(q).sha + 1

\* The ids the delete q left in the catalog.
Remaining(q) == IdsOf(loc[q].books)

\* The id the delete q removed was the highest of the catalog q fetched.
RemovedHighest(q) == \A i \in Remaining(q) : i < loc[q].removed.id

\* C16 as stated: after a successful delete of the Book with the highest id
\* the next successful upload is allocated that same id, and after a delete of
\* a Book that does not hold the highest id the next upload is not allocated
\* the deleted id.
C16_HighestIdReused ==
  \A q \in Procs : \A p \in Procs :
    NextUploadAfter(q, p) =>
      /\ RemovedHighest(q) => loc[p].newBook.id = loc[q].removed.id
      /\ ~RemovedHighest(q) => loc[p].newBook.id # loc[q].removed.id

\* C16, amended: the next successful upload after a successful delete is
\* allocated one more than the highest id that remains, or 1 when no Book
\* remains; that is the deleted id exactly when the deleted id was one more
\* than the highest remaining id (or was 1, with no Book remaining), and never
\* when a higher id remains.
C16_NextIdAfterDelete ==
  \A q \in Procs : \A p \in Procs :
    NextUploadAfter(q, p) =>
      LET id   == loc[p].newBook.id
          gone == loc[q].removed.id
          follows(n) == /\ \A i \in Remaining(q) : i < n
                        /\ n = 1 \/ (n - 1) \in Remaining(q)
      IN  /\ follows(id)
          /\ (id = gone) <=> follows(gone)
          /\ (\E i \in Remaining(q) : i > gone) => id # gone

C16_Witness ==
  \E q \in Procs : \E p \in Procs :
    /\ NextUploadAfter(q, p)
    /\ Remaining(q) = {1}
    /\ loc[q].removed.id = 2
    /\ loc[p].newBook.id = 2
    /\ Len(catalog.content) = 2 /\ catalog.content[2].id = 2

\* The characters [a-z0-9-].
SlugOutputChars ==
  {LowerChars[i] : i \in 1..26} \cup {Digits[i] : i \in 1..Len(Digits)} \cup {"-"}

\* The result of slugify has only characters of [a-z0-9-] (so no whitespace),
\* no two hyphens in a row, and at most 60 characters.
C17_SlugShape ==
  slugPc # "in" =>
    /\ \A i \in 1..Len(slugOnce) : slugOnce[i] \in SlugOutputChars
    /\ \A i \in 1..(Len(slugOnce) - 1) : ~(slugOnce[i] = "-" /\ slugOnce[i + 1] = "-")
    /\ Len(slugOnce) <= SlugMax

\* C17: the result of slugify has only characters of [a-z0-9-], no
\* whitespace, no two hyphens in a row, no hyphen at its start or at its end,
\* and at most 60 characters.
C17_SlugTrimmed ==
  slugPc # "in" =>
    /\ C17_SlugShape
    /\ slugOnce # <<>> => slugOnce[1] # "-" /\ slugOnce[Len(slugOnce)] # "-"

\* The Book b is in the stored catalog.
InCatalog(b) == \E i \in 1..Len(catalog.content) : catalog.content[i] = b

\* C18: the Books of the stored catalog have pairwise distinct file paths, and
\* the blob at the file path of a Book is the content that was uploaded for
\* that Book: for a Book added by an upload of this behaviour the data of that
\* upload, for Book1 and Book2 of the initial catalog the data d1 and d2.
C18_OneFilePerBook ==
  /\ \A i \in 1..Len(catalog.content) : \A j \in 1..Len(catalog.content) :
       i # j => catalog.content[i].file # catalog.content[j].file
  /\ \A p \in Procs :
       (kind[p] = "upload" /\ WonCatalog(p) /\ InCatalog(loc[p].newBook)) =>
         blobs[loc[p].filePath].content = inp[p].file.data
  /\ InCatalog(Book1) => blobs[Book1.file].content = "d1"
  /\ InCatalog(Book2) => blobs[Book2.file].content = "d2"

\* C19: no acknowledged update is lost. The Book of every upload that was
\* answered with a success is in the stored catalog unless a delete of its id
\* was answered with a success; the Book of every delete that was answered
\* with a success is not in the stored catalog unless an upload of that same
\* Book was answered with a success.
C19_NoLostUpdate ==
  /\ \A p \in Procs :
       (kind[p] = "upload" /\ resp[p].success) =>
         \/ InCatalog(resp[p].book)
         \/ \E q \in Procs : /\ kind[q] = "delete" /\ resp[q].success
                             /\ resp[q].book.id = resp[p].book.id
  /\ \A q \in Procs :
       (kind[q] = "delete" /\ resp[q].success) =>
         \/ ~InCatalog(resp[q].book)
         \/ \E p \in Procs : /\ kind[p] = "upload" /\ resp[p].success
                             /\ resp[p].book = resp[q].book

\* C20: every Book of the stored catalog has a file path at which a blob
\* exists, and an upload that has sent its catalog write had its blob write
\* accepted before.
C20_EveryBookHasBlob ==
  /\ \A i \in 1..Len(catalog.content) :
       /\ catalog.content[i].file \in DOMAIN blobs
       /\ blobs[catalog.content[i].file].sha # Null
  /\ \A p \in Procs :
       (kind[p] = "upload" /\ HasCatPut(p)) =>
         /\ calls[p][2].op = "PUT" /\ calls[p][2].target = "blob"
         /\ calls[p][2].status \in {200, 201}
         /\ blobs[loc[p].filePath].sha # Null

C20_Witness ==
  \E p \in Procs : \E q \in Procs :
    /\ kind[p] = "upload" /\ WonCatalog(p)
    /\ calls[p][1].status = 404
    /\ InCatalog(loc[p].newBook)
    /\ blobs[loc[p].filePath].sha # Null
    /\ kind[q] = "delete" /\ resp[q].success
    /\ ~InCatalog(resp[q].book)
    /\ blobs[resp[q].book.file].sha # Null

====
